---- MODULE Spec2Model ----
(***************************************************************************)
(* Verification model of the EE474 Lab 4 programs.                         *)
(*                                                                         *)
(* Part II, the synchronized sensor pipeline, exists in two revisions:     *)
(*   "flag"  : src/Lab4_PartII/Lab4_PartII.ino  (sma is stored, and         *)
(*             dataChanged set, only past a threshold; the alarm blinks    *)
(*             while it holds the semaphore)                               *)
(*   "final" : src/unnamed/part_001 lines 111-302 (average stored every    *)
(*             round, the LCD task keeps a snapshot, the alarm blinks      *)
(*             after the give)                                             *)
(* Part I, the budget-tracking monitor: src/unnamed/part_001 lines 471-699.*)
(*                                                                         *)
(* A float is held as the int it was computed from: `average` holds the    *)
(* window sum s and stands for the single-precision value of s / 5.0.      *)
(***************************************************************************)
EXTENDS Integers, Sequences, FiniteSets, TLC

VARIABLES
    rev,            \* which revision of Part II runs: "flag" or "final"
    pcSetup,        \* position of setup()
    semCreated,     \* xLightSemaphore != NULL
    sem,            \* count of the binary semaphore: 0 (empty) or 1 (available)
    nullOp,         \* a semaphore call was made on a NULL handle
    owner,          \* the task whose xSemaphoreTake succeeded last and has not given
    pc,             \* position of each pipeline task
    raw,            \* vTaskLight: int raw
    light,          \* int light (lightLevel in the flag revision)
    average,        \* float average (sma in the flag revision), as a window sum
    dataChanged,    \* bool dataChanged (flag revision)
    lightHistory,   \* int lightHistory[5]
    index,          \* int index
    written,        \* the raw values written so far, the last N of them, oldest first
    feed,           \* the readings analogRead will return, in a scripted run
    prevLight,      \* vTaskLCD: int prevLight
    prevAverage,    \* vTaskLCD: float prevAverage, as a window sum
    printed,        \* what vTaskLCD printed in its current round: <<>> or
                    \* <<light, (int)average>>
    foundDirty,     \* the condition vTaskLCD evaluated in its current round
    anomaly,        \* vTaskAnomaly: bool anomaly
    readAvg,        \* the average vTaskAnomaly read in its current cycle
    blinkI,         \* vTaskAnomaly: loop counter i of the blink loop
    led,            \* level of LED_PIN
    toggles,        \* digitalWrite calls of the blink sequence started last,
                    \* kept until the next cycle decides whether to blink
    \* vTaskPrime
    pcPrime,        \* position of vTaskPrime
    primeI,         \* loop variable i
    primeJ,         \* loop variable j (flag revision)
    divZero,        \* what num % 0 does in this build (flag revision)
    emitted,        \* the numbers given to Serial.println, in order
    \* Part I
    remainingLedTime,
    remainingCounterTime,
    remainingAlphabetTime,
    state,          \* ledTask: bool state
    minRemaining,   \* scheduleTasks: TickType_t minRemaining
    pcI             \* position of each Part I task

syncVars == <<pcSetup, semCreated, sem, nullOp, owner, pc>>
dataVars == <<raw, light, average, dataChanged, lightHistory, index, written, feed>>
lcdVars == <<prevLight, prevAverage, printed, foundDirty>>
alarmVars == <<anomaly, readAvg, blinkI, led, toggles>>
pipeVars == <<syncVars, dataVars, lcdVars, alarmVars>>
primeVars == <<pcPrime, primeI, primeJ, divZero, emitted>>
budgetVars == <<remainingLedTime, remainingCounterTime, remainingAlphabetTime,
                state, minRemaining, pcI>>
vars == <<rev, pipeVars, primeVars, budgetVars>>

----
\* Program constants

\* int lightHistory[5]; index = (index + 1) % 5; i < 5; sum / 5.0
N == 5
\* abs(newSMA - sma) > 5
Threshold == 5
\* average > 3800
HighThreshold == 3800
\* average < 300
LowThreshold == 300
\* for (int i = 0; i < 3; i++) of the blink loop
BlinkCount == 3

Tasks == {"Light", "LCD", "Anomaly"}

\* analogRead(PHOTO_PIN): the 12-bit ADC gives 0..4095; the values tried
\* (in the final revision darkness and a reading near full scale that makes
\* averages with a fraction; one value where vTaskPrime is part of the run:
\* the readings have no bearing on it, nor on who gets the lock)
Samples(r) ==
    IF r = "flag" THEN {25, 2557}
    ELSE IF pcPrime = "none" THEN {0, 4094} ELSE {4094}

\* What the uninitialized local lightHistory[5] may hold when vTaskLight
\* starts: a cleared stack, or a value left in every slot
GarbageValues == {0, 4094}

----
\* Arithmetic of the averages

\* for (int i = 0; i < 5; i++) sum += lightHistory[i];
RECURSIVE SumFrom(_, _)
SumFrom(h, i) == IF i >= N THEN 0 ELSE h[i] + SumFrom(h, i + 1)
\* Variant: the sum leaves slot 0 out
SumHistorySkipsFirst(h) == SumFrom(h, 1)
SumHistory(h) == SumFrom(h, 0)

\* (int)average: the conversion truncates toward zero. The float nearest to
\* s/5 lies on the same side of every integer as s/5 itself.
TruncAverage(s) == IF s >= 0 THEN s \div N ELSE -((-s) \div N)

\* average > k for an int k: k is a float, and rounding s/5 to a float is
\* monotonic, so the comparison is that of s/5 with k.
AverageGt(s, k) == s > N * k
AverageLt(s, k) == s < N * k

\* float newSMA = sum / 5.0 in single precision (24-bit significand, round to
\* nearest). For s > 0 the float is m * 2^(-k) with 2^23 <= m < 2^24:
\* F32Shift is k, F32Residual is 5 * m - s * 2^k, so that the float is
\* s/5 + F32Residual / (5 * 2^k).
RECURSIVE Pow2(_)
Pow2(n) == IF n <= 0 THEN 1 ELSE 2 * Pow2(n - 1)

RECURSIVE F32ShiftFrom(_, _)
F32ShiftFrom(s, k) == IF s * Pow2(k) >= N * Pow2(23) THEN k ELSE F32ShiftFrom(s, k + 1)
F32Shift(s) == F32ShiftFrom(s, 0)

F32Residual(s) ==
    LET rem == (s * Pow2(F32Shift(s))) % N
    IN  IF 2 * rem < N THEN -rem ELSE N - rem

\* The rounding error of the float for s/5, in units of 1 / (5 * 2^26)
F32Error(s) == IF s = 0 THEN 0 ELSE F32Residual(s) * Pow2(26 - F32Shift(s))

\* abs(newSMA - sma) > 5, the subtraction done in single precision on the two
\* floats. The exact difference is (sNew - sOld)/5 plus the two rounding
\* errors (each below 2^-12); its float is above 5 exactly when the exact
\* difference is above 5 + 2^-22, half the float spacing at 5 (a tie goes to 5,
\* whose significand is even). 2^-22 is 80 units of 1 / (5 * 2^26).
AbsDiffExceeds(sNew, sOld) ==
    LET d == sNew - sOld
        e == F32Error(sNew) - F32Error(sOld)
    IN  IF d > N * Threshold \/ d < -(N * Threshold) THEN TRUE
        ELSE IF d = N * Threshold THEN e > 80
        ELSE IF d = -(N * Threshold) THEN -e > 80
        ELSE FALSE

\* average > 3800 || average < 300
OutOfRange(s) == AverageGt(s, HighThreshold) \/ AverageLt(s, LowThreshold)

\* Variant: the index wraps one slot early
NextIndexShort(i) == (i + 1) % (N - 1)

\* index = (index + 1) % 5
NextIndex(i) == (i + 1) % N

\* The last N raw values written, oldest first, after v is written
Record(w, v) == IF Len(w) < N THEN Append(w, v) ELSE Append(Tail(w), v)

\* The value of feed in a run whose readings are not scripted (a reading is
\* never negative)
Unscripted == <<-1>>

----
\* State after the globals are initialized and before setup() runs

ZeroHistory == [i \in 0..(N - 1) |-> 0]

\* int lightHistory[5] = {0} is a zero-initialized global in the flag revision
\* and an uninitialized local of vTaskLight in the final revision
InitialHistories(r) ==
    IF r = "flag" THEN {ZeroHistory}
    ELSE {[i \in 0..(N - 1) |-> g] : g \in GarbageValues}

InitData ==
    /\ raw = 0
    /\ light = 0
    /\ average = 0
    /\ dataChanged = FALSE
    /\ lightHistory \in InitialHistories(rev)
    /\ index = 0
    /\ written = <<>>
    /\ prevLight = 0
    /\ prevAverage = 0
    /\ printed = <<>>
    /\ foundDirty = FALSE
    /\ anomaly = FALSE
    /\ readAvg = 0
    /\ blinkI = 0
    /\ led = 0
    /\ toggles = 0

\* vTaskPrime and the Part I tasks are not part of the run
PrimeOff ==
    /\ pcPrime = "none"
    /\ primeI = 0
    /\ primeJ = 0
    /\ divZero = "none"
    /\ emitted = <<>>

BudgetOff ==
    /\ remainingLedTime = 0
    /\ remainingCounterTime = 0
    /\ remainingAlphabetTime = 0
    /\ state = FALSE
    /\ minRemaining = 0
    /\ pcI = <<>>

NotCreated == [t \in Tasks |-> "none"]

\* The pipeline tasks are not part of the run
PipelineOff ==
    /\ pcSetup = "off"
    /\ semCreated = FALSE
    /\ sem = 0
    /\ nullOp = FALSE
    /\ owner = "none"
    /\ pc = NotCreated
    /\ raw = 0
    /\ light = 0
    /\ average = 0
    /\ dataChanged = FALSE
    /\ lightHistory = ZeroHistory
    /\ index = 0
    /\ written = <<>>
    /\ feed = Unscripted
    /\ prevLight = 0
    /\ prevAverage = 0
    /\ printed = <<>>
    /\ foundDirty = FALSE
    /\ anomaly = FALSE
    /\ readAvg = 0
    /\ blinkI = 0
    /\ led = 0
    /\ toggles = 0
Created == [t \in Tasks |-> IF t = "Light" THEN "sample" ELSE "take"]

\* Power-on: setup() has not run
InitBoot ==
    /\ rev \in {"flag", "final"}
    /\ pcSetup = "create"
    /\ semCreated = FALSE
    /\ sem = 0
    /\ nullOp = FALSE
    /\ owner = "none"
    /\ pc = NotCreated
    /\ InitData
    /\ feed = Unscripted
    /\ PrimeOff
    /\ BudgetOff

\* The flag revision's tasks use lightSemaphore, a handle that no code of
\* Lab4_PartII.ino creates (its setup() creates xLightSemaphore and never gives
\* it): the lock these tasks share is taken as the specification describes it
\* after startup, constructed and available, with the three tasks created.
InitLockAvailable ==
    /\ rev = "flag"
    /\ pcSetup = "done"
    /\ semCreated = TRUE
    /\ sem = 1
    /\ nullOp = FALSE
    /\ owner = "none"
    /\ pc = Created
    /\ InitData
    /\ feed = Unscripted
    /\ PrimeOff
    /\ BudgetOff

Init == InitBoot \/ InitLockAvailable

----
\* setup()

\* xLightSemaphore = xSemaphoreCreateBinary(): NULL when the heap is exhausted,
\* otherwise a binary semaphore in the empty state
SetupCreate ==
    /\ pcSetup = "create"
    /\ \E ok \in BOOLEAN : semCreated' = ok
    /\ sem' = 0
    /\ pcSetup' = IF rev = "final" THEN "give" ELSE "tasks"
    /\ UNCHANGED <<rev, primeVars, budgetVars, nullOp, owner, pc, dataVars, lcdVars, alarmVars>>

\* xSemaphoreGive(xLightSemaphore), final revision only, before the NULL test
SetupGive ==
    /\ pcSetup = "give"
    /\ IF semCreated
         THEN sem' = 1 /\ pcSetup' = "tasks" /\ UNCHANGED nullOp
         ELSE nullOp' = TRUE /\ pcSetup' = "crashed" /\ UNCHANGED sem
    /\ UNCHANGED <<rev, primeVars, budgetVars, semCreated, owner, pc, dataVars, lcdVars, alarmVars>>

\* if (xLightSemaphore != NULL) { xTaskCreatePinnedToCore(...) x 4 }
SetupTasks ==
    /\ pcSetup = "tasks"
    /\ pc' = IF semCreated THEN Created ELSE pc
    /\ pcSetup' = "done"
    /\ UNCHANGED <<rev, primeVars, budgetVars, semCreated, sem, nullOp, owner, dataVars, lcdVars, alarmVars>>

----
\* The binary semaphore

\* Variant: a take that does not wait for the semaphore to be available
SemaphoreTakeNoWait(t, next) ==
    /\ pc[t] = "take"
    /\ semCreated
    /\ sem' = 0
    /\ owner' = t
    /\ pc' = [pc EXCEPT ![t] = next]
    /\ UNCHANGED <<pcSetup, semCreated, nullOp>>

\* xSemaphoreTake(xLightSemaphore, portMAX_DELAY) == pdTRUE: the caller blocks
\* until the semaphore is available, takes it and goes on to `next`
SemaphoreTake(t, next) ==
    /\ pc[t] = "take"
    /\ semCreated
    /\ sem = 1
    /\ sem' = 0
    /\ owner' = t
    /\ pc' = [pc EXCEPT ![t] = next]
    /\ UNCHANGED <<pcSetup, semCreated, nullOp>>

\* xSemaphoreGive(xLightSemaphore): the count of a binary semaphore goes to 1
\* (a give on an available semaphore fails and changes nothing)
SemaphoreGive(t, next) ==
    /\ pc[t] = "give"
    /\ sem' = 1
    /\ owner' = IF sem = 0 THEN "none" ELSE owner
    /\ pc' = [pc EXCEPT ![t] = next]
    /\ UNCHANGED <<pcSetup, semCreated, nullOp>>

\* A step of task t from `from` to `to` that touches no semaphore
Goto(t, from, to) ==
    /\ pc[t] = from
    /\ pc' = [pc EXCEPT ![t] = to]
    /\ UNCHANGED <<pcSetup, semCreated, sem, nullOp, owner>>

----
\* vTaskLight

\* raw = analogRead(PHOTO_PIN), before the take
LightSample ==
    /\ IF feed = Unscripted
         THEN (\E v \in Samples(rev) : raw' = v) /\ UNCHANGED feed
         ELSE feed /= <<>> /\ raw' = Head(feed) /\ feed' = Tail(feed)
    /\ Goto("Light", "sample", "take")
    /\ UNCHANGED <<rev, primeVars, budgetVars, light, average, dataChanged, lightHistory, index, written,
                   lcdVars, alarmVars>>

\* Variant: vTaskLight goes on to its update without the take
LightTakeSkipped ==
    /\ Goto("Light", "take", "update")
    /\ UNCHANGED <<rev, primeVars, budgetVars, dataVars, lcdVars, alarmVars>>

LightTake ==
    /\ SemaphoreTake("Light", "update")
    /\ UNCHANGED <<rev, primeVars, budgetVars, dataVars, lcdVars, alarmVars>>

\* lightHistory[index] = raw; index = (index + 1) % 5; light = raw
StoreSample ==
    /\ lightHistory' = [lightHistory EXCEPT ![index] = raw]
    /\ index' = NextIndex(index)
    /\ light' = raw
    /\ written' = Record(written, raw)

\* Variant: the sensor is read again inside the critical section
LightUpdateFinalResamples ==
    /\ rev = "final"
    /\ Goto("Light", "update", "give")
    /\ \E v \in Samples(rev) :
         /\ raw' = v
         /\ lightHistory' = [lightHistory EXCEPT ![index] = v]
         /\ light' = v
         /\ written' = Record(written, v)
    /\ index' = NextIndex(index)
    /\ average' = SumHistory(lightHistory')
    /\ UNCHANGED <<rev, primeVars, budgetVars, feed, dataChanged, lcdVars, alarmVars>>

\* Final revision: average = sum / 5.0
LightUpdateFinal ==
    /\ rev = "final"
    /\ Goto("Light", "update", "give")
    /\ StoreSample
    /\ average' = SumHistory(lightHistory')
    /\ UNCHANGED <<rev, primeVars, budgetVars, raw, feed, dataChanged, lcdVars, alarmVars>>

\* Variant: past the threshold the round sets dataChanged and leaves sma
LightUpdateFlagNoStore ==
    /\ rev = "flag"
    /\ Goto("Light", "update", "give")
    /\ StoreSample
    /\ dataChanged' = IF AbsDiffExceeds(SumHistory(lightHistory'), average)
                        THEN TRUE ELSE dataChanged
    /\ UNCHANGED <<rev, primeVars, budgetVars, raw, feed, average, lcdVars, alarmVars>>

\* Flag revision: float newSMA = sum / 5.0;
\* if (abs(newSMA - sma) > 5) { sma = newSMA; dataChanged = true; }
LightUpdateFlag ==
    /\ rev = "flag"
    /\ Goto("Light", "update", "give")
    /\ StoreSample
    /\ LET newSMA == SumHistory(lightHistory')
       IN  IF AbsDiffExceeds(newSMA, average)
             THEN average' = newSMA /\ dataChanged' = TRUE
             ELSE UNCHANGED <<average, dataChanged>>
    /\ UNCHANGED <<rev, primeVars, budgetVars, raw, feed, lcdVars, alarmVars>>

\* xSemaphoreGive, then vTaskDelay(pdMS_TO_TICKS(100)) (commented out in the
\* flag revision) and the next iteration
LightGive ==
    /\ SemaphoreGive("Light", "sample")
    /\ UNCHANGED <<rev, primeVars, budgetVars, dataVars, lcdVars, alarmVars>>

----
\* vTaskLCD

LCDTake ==
    /\ SemaphoreTake("LCD", "round")
    /\ UNCHANGED <<rev, primeVars, budgetVars, dataVars, lcdVars, alarmVars>>

\* lcd.clear(); ... lcd.print(light); ... lcd.print((int)average);
LcdOutput == <<light, TruncAverage(average)>>

\* Final revision: if (light != prevLight || average != prevAverage)
\*   { print; prevLight = light; prevAverage = average; }
SnapshotDiffers == light /= prevLight \/ average /= prevAverage

\* Variant: the round compares the raw value only
LCDRoundFinalLightOnly ==
    /\ rev = "final"
    /\ Goto("LCD", "round", "give")
    /\ foundDirty' = (light /= prevLight)
    /\ IF light /= prevLight
         THEN printed' = LcdOutput /\ prevLight' = light /\ prevAverage' = average
         ELSE printed' = <<>> /\ UNCHANGED <<prevLight, prevAverage>>
    /\ UNCHANGED <<rev, primeVars, budgetVars, dataVars, alarmVars>>

LCDRoundFinal ==
    /\ rev = "final"
    /\ Goto("LCD", "round", "give")
    /\ foundDirty' = SnapshotDiffers
    /\ IF SnapshotDiffers
         THEN printed' = LcdOutput /\ prevLight' = light /\ prevAverage' = average
         ELSE printed' = <<>> /\ UNCHANGED <<prevLight, prevAverage>>
    /\ UNCHANGED <<rev, primeVars, budgetVars, dataVars, alarmVars>>

\* Variant: the flag revision's round prints and leaves dataChanged set
LCDRoundFlagKeepsDirty ==
    /\ rev = "flag"
    /\ Goto("LCD", "round", "give")
    /\ foundDirty' = dataChanged
    /\ printed' = IF dataChanged THEN LcdOutput ELSE <<>>
    /\ UNCHANGED <<rev, primeVars, budgetVars, dataVars, prevLight, prevAverage, alarmVars>>

\* Flag revision: if (dataChanged) { print; dataChanged = false; }
LCDRoundFlag ==
    /\ rev = "flag"
    /\ Goto("LCD", "round", "give")
    /\ foundDirty' = dataChanged
    /\ IF dataChanged
         THEN printed' = LcdOutput /\ dataChanged' = FALSE
         ELSE printed' = <<>> /\ UNCHANGED dataChanged
    /\ UNCHANGED <<rev, primeVars, budgetVars, raw, feed, light, average, lightHistory, index, written,
                   prevLight, prevAverage, alarmVars>>

\* Variant: the give is made only on the path that printed
LCDGiveIfPrinted ==
    /\ IF printed /= <<>> THEN SemaphoreGive("LCD", "take")
       ELSE Goto("LCD", "give", "take")
    /\ printed' = <<>>
    /\ foundDirty' = FALSE
    /\ UNCHANGED <<rev, primeVars, budgetVars, dataVars, prevLight, prevAverage, alarmVars>>

\* xSemaphoreGive, then vTaskDelay(pdMS_TO_TICKS(250)) (commented out in the
\* flag revision) and the next iteration
LCDGive ==
    /\ SemaphoreGive("LCD", "take")
    /\ printed' = <<>>
    /\ foundDirty' = FALSE
    /\ UNCHANGED <<rev, primeVars, budgetVars, dataVars, prevLight, prevAverage, alarmVars>>

----
\* vTaskAnomaly

AnomalyTake ==
    /\ SemaphoreTake("Anomaly", "check")
    /\ UNCHANGED <<rev, primeVars, budgetVars, dataVars, lcdVars, alarmVars>>

\* Final revision: if (average > 3800 || average < 300) { anomaly = true; }
AnomalyCheckFinal ==
    /\ rev = "final"
    /\ readAvg' = average
    /\ anomaly' = IF OutOfRange(average) THEN TRUE ELSE anomaly
    /\ Goto("Anomaly", "check", "give")
    /\ UNCHANGED <<rev, primeVars, budgetVars, dataVars, lcdVars, blinkI, led, toggles>>

\* Flag revision: if (sma > 3800 || sma < 300) { for (int i = 0; ...
AnomalyCheckFlag ==
    /\ rev = "flag"
    /\ readAvg' = average
    /\ toggles' = 0
    /\ Goto("Anomaly", "check", IF OutOfRange(average) THEN "high" ELSE "give")
    /\ UNCHANGED <<rev, primeVars, budgetVars, dataVars, lcdVars, anomaly, blinkI, led>>

\* Variant: vTaskAnomaly goes on without giving the semaphore back
AnomalyGiveKeeps ==
    /\ Goto("Anomaly", "give", IF rev = "final" THEN "test" ELSE "take")
    /\ readAvg' = IF rev = "final" THEN readAvg ELSE 0
    /\ UNCHANGED <<rev, primeVars, budgetVars, dataVars, lcdVars, anomaly, blinkI, led, toggles>>

\* xSemaphoreGive: before the blink test in the final revision; after the
\* blink sequence, ending the cycle, in the flag revision
AnomalyGive ==
    /\ SemaphoreGive("Anomaly", IF rev = "final" THEN "test" ELSE "take")
    /\ readAvg' = IF rev = "final" THEN readAvg ELSE 0
    /\ UNCHANGED <<rev, primeVars, budgetVars, dataVars, lcdVars, anomaly, blinkI, led, toggles>>

\* Variant: the blink test reads the shared average again, after the give
AnomalyTestRereads ==
    /\ Goto("Anomaly", "test", IF OutOfRange(average) THEN "high" ELSE "take")
    /\ readAvg' = 0
    /\ toggles' = 0
    /\ UNCHANGED <<rev, primeVars, budgetVars, dataVars, lcdVars, anomaly, blinkI, led>>

\* Final revision: if (anomaly) { for (int i = 0; ...  ; otherwise
\* vTaskDelay(pdMS_TO_TICKS(50)) and the next cycle
AnomalyTest ==
    /\ Goto("Anomaly", "test", IF anomaly THEN "high" ELSE "take")
    /\ readAvg' = 0
    /\ toggles' = 0
    /\ UNCHANGED <<rev, primeVars, budgetVars, dataVars, lcdVars, anomaly, blinkI, led>>

\* digitalWrite(LED_PIN, HIGH); vTaskDelay(pdMS_TO_TICKS(250));
AnomalyHigh ==
    /\ led' = 1
    /\ toggles' = toggles + 1
    /\ Goto("Anomaly", "high", "low")
    /\ UNCHANGED <<rev, primeVars, budgetVars, dataVars, lcdVars, anomaly, readAvg, blinkI>>

\* Variant: the loop test is i <= 3
AnomalyLowOneMore ==
    /\ led' = 0
    /\ toggles' = toggles + 1
    /\ blinkI' = IF blinkI + 1 <= BlinkCount THEN blinkI + 1 ELSE 0
    /\ Goto("Anomaly", "low",
            IF blinkI + 1 <= BlinkCount THEN "high"
            ELSE IF rev = "final" THEN "reset" ELSE "wait")
    /\ UNCHANGED <<rev, primeVars, budgetVars, dataVars, lcdVars, anomaly, readAvg>>

\* digitalWrite(LED_PIN, LOW); vTaskDelay(...); i++; i < 3
AnomalyLow ==
    /\ led' = 0
    /\ toggles' = toggles + 1
    /\ blinkI' = IF blinkI + 1 < BlinkCount THEN blinkI + 1 ELSE 0
    /\ Goto("Anomaly", "low",
            IF blinkI + 1 < BlinkCount THEN "high"
            ELSE IF rev = "final" THEN "reset" ELSE "wait")
    /\ UNCHANGED <<rev, primeVars, budgetVars, dataVars, lcdVars, anomaly, readAvg>>

\* Variant: the blink sequence ends without anomaly = false
AnomalyResetLatches ==
    /\ Goto("Anomaly", "reset", "take")
    /\ UNCHANGED <<rev, primeVars, budgetVars, dataVars, lcdVars, alarmVars>>

\* Final revision: anomaly = false; then vTaskDelay(pdMS_TO_TICKS(50)) and
\* the next cycle
AnomalyReset ==
    /\ anomaly' = FALSE
    /\ Goto("Anomaly", "reset", "take")
    /\ UNCHANGED <<rev, primeVars, budgetVars, dataVars, lcdVars, readAvg, blinkI, led, toggles>>

\* Flag revision: vTaskDelay(pdMS_TO_TICKS(2000)) after the loop, lock held
AnomalyWait ==
    /\ Goto("Anomaly", "wait", "give")
    /\ UNCHANGED <<rev, primeVars, budgetVars, dataVars, lcdVars, alarmVars>>

----
Setup == SetupCreate \/ SetupGive \/ SetupTasks

vTaskLight == LightSample \/ LightTake \/ LightUpdateFinal \/ LightUpdateFlag
                \/ LightGive

vTaskLCD == LCDTake \/ LCDRoundFinal \/ LCDRoundFlag \/ LCDGive

vTaskAnomaly == AnomalyTake \/ AnomalyCheckFinal \/ AnomalyCheckFlag \/ AnomalyGive
                  \/ AnomalyTest \/ AnomalyHigh \/ AnomalyLow \/ AnomalyReset
                  \/ AnomalyWait

Next == Setup \/ vTaskLight \/ vTaskLCD \/ vTaskAnomaly

Spec == Init /\ [][Next]_vars

----
\* The flag revision fed a script of readings

\* raw readings 10, 10, 10, 10, 10 and then one reading of 50
Scenario == <<10, 10, 10, 10, 10, 50>>

\* The zero-initialized globals, the lock available and the three tasks
\* created, as InitLockAvailable
InitScenario ==
    /\ rev = "flag"
    /\ pcSetup = "done"
    /\ semCreated = TRUE
    /\ sem = 1
    /\ nullOp = FALSE
    /\ owner = "none"
    /\ pc = Created
    /\ InitData
    /\ feed = Scenario
    /\ PrimeOff
    /\ BudgetOff

PipelineFlag ==
    \/ LightSample \/ LightTake \/ LightUpdateFlag \/ LightGive
    \/ LCDTake \/ LCDRoundFlag \/ LCDGive
    \/ AnomalyTake \/ AnomalyCheckFlag \/ AnomalyGive
    \/ AnomalyHigh \/ AnomalyLow \/ AnomalyWait

ScenarioSpec == InitScenario /\ [][PipelineFlag]_vars

----
\* vTaskPrime, run on its own

\* for (int i = 2; i <= 5000; i++): the upper limit tried
LastCandidate == 40

\* bool isPrime(int num): for (int i = 2; i * i <= num; i++)
\*   if (num % i == 0) return false;  return true;
RECURSIVE isPrimeFrom(_, _)
isPrimeFrom(num, i) ==
    IF i * i <= num
      THEN IF num % i = 0 THEN FALSE ELSE isPrimeFrom(num, i + 1)
      ELSE TRUE
isPrime(num) == isPrimeFrom(num, 2)

\* num % 0 is undefined: the build traps, or goes on with some remainder
DivZeroOutcomes == {"trap", "zero", "nonzero"}

InitPrime ==
    /\ rev \in {"flag", "final"}
    /\ pcPrime = "loop"
    /\ primeI = 2
    /\ primeJ = 0
    /\ divZero \in IF rev = "flag" THEN DivZeroOutcomes ELSE {"none"}
    /\ emitted = <<>>
    /\ PipelineOff
    /\ BudgetOff

\* Variant: past the limit the task spins instead of deleting itself
PrimeStepFinalSpins ==
    /\ rev = "final"
    /\ pcPrime = "loop"
    /\ IF primeI <= LastCandidate
         THEN /\ emitted' = IF isPrime(primeI) THEN Append(emitted, primeI) ELSE emitted
              /\ pcPrime' = "delay"
         ELSE UNCHANGED <<pcPrime, emitted>>
    /\ UNCHANGED <<rev, pipeVars, budgetVars, primeI, primeJ, divZero>>

\* Final revision: i <= 5000; if (isPrime(i)) { Serial.println(i); }
\* and, past the limit, vTaskDelete(NULL)
PrimeStepFinal ==
    /\ rev = "final"
    /\ pcPrime = "loop"
    /\ IF primeI <= LastCandidate
         THEN /\ emitted' = IF isPrime(primeI) THEN Append(emitted, primeI) ELSE emitted
              /\ pcPrime' = "delay"
         ELSE /\ pcPrime' = "deleted"
              /\ UNCHANGED emitted
    /\ UNCHANGED <<rev, pipeVars, budgetVars, primeI, primeJ, divZero>>

\* Final revision: vTaskDelay(pdMS_TO_TICKS(10)); i++
PrimeDelay ==
    /\ pcPrime = "delay"
    /\ primeI' = primeI + 1
    /\ pcPrime' = "loop"
    /\ UNCHANGED <<rev, pipeVars, budgetVars, primeJ, divZero, emitted>>

\* The remainder test of the flag revision, num % j == 0 (num read as i, the
\* only candidate in scope)
Divides(j, num) ==
    IF j = 0 THEN divZero = "zero" ELSE num % j = 0

\* Flag revision: for (i = 2; i <= 5000; i++) for (j = 0; j * j <= num; j++)
\*   if (num % j == 0) { Serial.println(i); }   and, past the limit,
\* vTaskDelete(NULL). One step is one test of the inner loop.
PrimeStepFlag ==
    /\ rev = "flag"
    /\ pcPrime = "loop"
    /\ IF primeI > LastCandidate
         THEN pcPrime' = "deleted" /\ UNCHANGED <<primeI, primeJ, emitted>>
         ELSE IF primeJ * primeJ > primeI
           THEN primeI' = primeI + 1 /\ primeJ' = 0 /\ UNCHANGED <<pcPrime, emitted>>
           ELSE IF primeJ = 0 /\ divZero = "trap"
             THEN pcPrime' = "crashed" /\ UNCHANGED <<primeI, primeJ, emitted>>
             ELSE /\ emitted' = IF Divides(primeJ, primeI)
                                  THEN Append(emitted, primeI) ELSE emitted
                  /\ primeJ' = primeJ + 1
                  /\ UNCHANGED <<pcPrime, primeI>>
    /\ UNCHANGED <<rev, pipeVars, budgetVars, divZero>>

----
\* vTaskPrime beside the three pipeline tasks of the final revision, as
\* setup() leaves them: the semaphore given, the four tasks created

InitBeside ==
    /\ rev = "final"
    /\ pcSetup = "done"
    /\ semCreated = TRUE
    /\ sem = 1
    /\ nullOp = FALSE
    /\ owner = "none"
    /\ pc = Created
    /\ InitData
    /\ feed = Unscripted
    /\ pcPrime = "loop"
    /\ primeI = 2
    /\ primeJ = 0
    /\ divZero = "none"
    /\ emitted = <<>>
    /\ BudgetOff

PipelineFinal ==
    \/ LightSample \/ LightTake \/ LightUpdateFinal \/ LightGive
    \/ LCDTake \/ LCDRoundFinal \/ LCDGive
    \/ AnomalyTake \/ AnomalyCheckFinal \/ AnomalyGive \/ AnomalyTest
    \/ AnomalyHigh \/ AnomalyLow \/ AnomalyReset

vTaskPrimeFinal == PrimeStepFinal \/ PrimeDelay

NextBeside == PipelineFinal \/ vTaskPrimeFinal

\* vTaskPrime never blocks but in vTaskDelay(10), and the one task above it on
\* its core, vTaskAnomaly, blocks in every cycle: vTaskPrime goes on running.
\* Nothing is assumed of the pipeline tasks.
PrimeLiveSpec == InitBeside /\ [][NextBeside]_vars /\ WF_vars(vTaskPrimeFinal)

----
\* The final revision once vTaskPrime has run its range and deleted itself,
\* the state of the program for the rest of its run: the semaphore given once
\* by setup(), the three pipeline tasks created

\* What vTaskPrime has printed when it deletes itself
PrimesPrinted ==
    LET candidates == [k \in 1..(LastCandidate - 1) |-> k + 1]
    IN  SelectSeq(candidates, isPrime)

InitStarted ==
    /\ rev = "final"
    /\ pcSetup = "done"
    /\ semCreated = TRUE
    /\ sem = 1
    /\ nullOp = FALSE
    /\ owner = "none"
    /\ pc = Created
    /\ InitData
    /\ feed = Unscripted
    /\ pcPrime = "deleted"
    /\ primeI = LastCandidate + 1
    /\ primeJ = 0
    /\ divZero = "none"
    /\ emitted = PrimesPrinted
    /\ BudgetOff

vTaskLightFinal == LightSample \/ LightTake \/ LightUpdateFinal \/ LightGive

vTaskLCDFinal == LCDTake \/ LCDRoundFinal \/ LCDGive

vTaskAnomalyFinal == AnomalyTake \/ AnomalyCheckFinal \/ AnomalyGive \/ AnomalyTest
                       \/ AnomalyHigh \/ AnomalyLow \/ AnomalyReset

NextStarted == vTaskLightFinal \/ vTaskLCDFinal \/ vTaskAnomalyFinal

\* No step of a task blocks but xSemaphoreTake and vTaskDelay, and a delay
\* ends. A task that waits in xSemaphoreTake is made ready by the give, and
\* the task that gave then sleeps in vTaskDelay (100, 250 or at least 50 ms)
\* while a critical section is a few stores or one LCD refresh: a waiting task
\* is not passed over for ever, which is strong fairness of each task.
PipelineLiveSpec ==
    /\ InitStarted
    /\ [][NextStarted]_vars
    /\ SF_vars(vTaskLightFinal)
    /\ SF_vars(vTaskLCDFinal)
    /\ SF_vars(vTaskAnomalyFinal)

NextPrime == PrimeStepFinal \/ PrimeDelay \/ PrimeStepFlag

PrimeSpec == InitPrime /\ [][NextPrime]_vars

----
\* Part I: three periodic tasks with budgets, and the monitor

\* 500 / portTICK_PERIOD_MS etc.: the tick is 1 ms
ledTaskExecutionTime == 500
counterTaskExecutionTime == 2000
alphabetTaskExecutionTime == 13000
\* const TickType_t timeSlice = 1000 / portTICK_PERIOD_MS
timeSlice == 1000

PartITasks == {"led", "counter", "alphabet", "schedule"}

\* Variant: the decrement without the clamp
DecrementUnclamped(remaining) == remaining - timeSlice

\* if (remaining > 0) remaining = (remaining > timeSlice) ? remaining - timeSlice : 0;
Decrement(remaining) ==
    IF remaining > 0
      THEN IF remaining > timeSlice THEN remaining - timeSlice ELSE 0
      ELSE remaining

\* Variant: a round that leaves a spent budget at zero
ReloadNever(remaining, period) == remaining

\* if (remaining == 0) remaining = period;
Reload(remaining, period) == IF remaining = 0 THEN period ELSE remaining

\* After setup(): the globals hold their initializers, the four tasks are
\* created and at the top of their loops
InitBudget ==
    /\ rev = "partI"
    /\ remainingLedTime = ledTaskExecutionTime
    /\ remainingCounterTime = counterTaskExecutionTime
    /\ remainingAlphabetTime = alphabetTaskExecutionTime
    /\ state = FALSE
    /\ minRemaining = 0
    /\ pcI = [t \in PartITasks |-> IF t = "schedule" THEN "readLed" ELSE "round"]
    /\ PipelineOff
    /\ PrimeOff

\* setup() pins the four tasks to core 0, the three periodic tasks at
\* priority 1 and scheduleTasks at priority 2: a periodic task runs only while
\* scheduleTasks is blocked in its vTaskDelay, and scheduleTasks, woken by the
\* tick, preempts a periodic task at any point of its round
Runnable(t) == t = "schedule" \/ pcI["schedule"] = "delay"

StepI(t, from, to) ==
    /\ Runnable(t)
    /\ pcI[t] = from
    /\ pcI' = [pcI EXCEPT ![t] = to]

\* ledTask: state = !state; digitalWrite; the decrement
ledTaskRound ==
    /\ StepI("led", "round", "reload")
    /\ state' = ~state
    /\ remainingLedTime' = Decrement(remainingLedTime)
    /\ UNCHANGED <<rev, pipeVars, primeVars, remainingCounterTime, remainingAlphabetTime,
                   minRemaining>>

\* ledTask: the reset test that follows the decrement in the same round
ledTaskReload ==
    /\ StepI("led", "reload", "delay")
    /\ remainingLedTime' = Reload(remainingLedTime, ledTaskExecutionTime)
    /\ UNCHANGED <<rev, pipeVars, primeVars, remainingCounterTime, remainingAlphabetTime,
                   state, minRemaining>>

\* vTaskDelay(timeSlice + 2000) / (timeSlice + 800) / (timeSlice + 300)
TaskDelay(t) ==
    /\ StepI(t, "delay", "round")
    /\ UNCHANGED <<rev, pipeVars, primeVars, remainingLedTime, remainingCounterTime,
                   remainingAlphabetTime, state, minRemaining>>

ledTaskDelay == TaskDelay("led")

\* counterTask: lcdPrint, currentCount++, the decrement
counterTaskRound ==
    /\ StepI("counter", "round", "reload")
    /\ remainingCounterTime' = Decrement(remainingCounterTime)
    /\ UNCHANGED <<rev, pipeVars, primeVars, remainingLedTime, remainingAlphabetTime,
                   state, minRemaining>>

\* Variant: the counter task's round ends without the reset test
counterTaskReloadSkipped ==
    /\ StepI("counter", "reload", "delay")
    /\ UNCHANGED <<rev, pipeVars, primeVars, remainingLedTime, remainingCounterTime,
                   remainingAlphabetTime, state, minRemaining>>

counterTaskReload ==
    /\ StepI("counter", "reload", "delay")
    /\ remainingCounterTime' = Reload(remainingCounterTime, counterTaskExecutionTime)
    /\ UNCHANGED <<rev, pipeVars, primeVars, remainingLedTime, remainingAlphabetTime,
                   state, minRemaining>>

counterTaskDelay == TaskDelay("counter")

\* alphabetTask: Serial.println(currentChar), currentChar++, the decrement
alphabetTaskRound ==
    /\ StepI("alphabet", "round", "reload")
    /\ remainingAlphabetTime' = Decrement(remainingAlphabetTime)
    /\ UNCHANGED <<rev, pipeVars, primeVars, remainingLedTime, remainingCounterTime,
                   state, minRemaining>>

alphabetTaskReload ==
    /\ StepI("alphabet", "reload", "delay")
    /\ remainingAlphabetTime' = Reload(remainingAlphabetTime, alphabetTaskExecutionTime)
    /\ UNCHANGED <<rev, pipeVars, primeVars, remainingLedTime, remainingCounterTime,
                   state, minRemaining>>

alphabetTaskDelay == TaskDelay("alphabet")

budgets == <<remainingLedTime, remainingCounterTime, remainingAlphabetTime>>

\* scheduleTasks: TickType_t minRemaining = remainingLedTime;
scheduleReadLed ==
    /\ StepI("schedule", "readLed", "cmpCounter")
    /\ minRemaining' = remainingLedTime
    /\ UNCHANGED <<rev, pipeVars, primeVars, budgets, state>>

\* if (remainingCounterTime < minRemaining)
scheduleCmpCounter ==
    /\ StepI("schedule", "cmpCounter",
             IF remainingCounterTime < minRemaining THEN "setCounter" ELSE "cmpAlphabet")
    /\ UNCHANGED <<rev, pipeVars, primeVars, budgets, state, minRemaining>>

\* Variant: the monitor's assignment goes the other way and writes the budget
scheduleSetCounterWrites ==
    /\ StepI("schedule", "setCounter", "cmpAlphabet")
    /\ remainingCounterTime' = minRemaining
    /\ UNCHANGED <<rev, pipeVars, primeVars, remainingLedTime, remainingAlphabetTime,
                   state, minRemaining>>

\* minRemaining = remainingCounterTime: a second read of the volatile
scheduleSetCounter ==
    /\ StepI("schedule", "setCounter", "cmpAlphabet")
    /\ minRemaining' = remainingCounterTime
    /\ UNCHANGED <<rev, pipeVars, primeVars, budgets, state>>

\* Variant: the comparison is >
scheduleCmpAlphabetGreater ==
    /\ StepI("schedule", "cmpAlphabet",
             IF remainingAlphabetTime > minRemaining THEN "setAlphabet" ELSE "delay")
    /\ UNCHANGED <<rev, pipeVars, primeVars, budgets, state, minRemaining>>

\* if (remainingAlphabetTime < minRemaining)
scheduleCmpAlphabet ==
    /\ StepI("schedule", "cmpAlphabet",
             IF remainingAlphabetTime < minRemaining THEN "setAlphabet" ELSE "delay")
    /\ UNCHANGED <<rev, pipeVars, primeVars, budgets, state, minRemaining>>

\* minRemaining = remainingAlphabetTime
scheduleSetAlphabet ==
    /\ StepI("schedule", "setAlphabet", "delay")
    /\ minRemaining' = remainingAlphabetTime
    /\ UNCHANGED <<rev, pipeVars, primeVars, budgets, state>>

\* The end of vTaskDelay(500): minRemaining of the round before is out of
\* scope and the next round starts
scheduleDelay ==
    /\ StepI("schedule", "delay", "readLed")
    /\ minRemaining' = 0
    /\ UNCHANGED <<rev, pipeVars, primeVars, budgets, state>>

ledTask == ledTaskRound \/ ledTaskReload \/ ledTaskDelay
counterTask == counterTaskRound \/ counterTaskReload \/ counterTaskDelay
alphabetTask == alphabetTaskRound \/ alphabetTaskReload \/ alphabetTaskDelay
scheduleTasks == scheduleReadLed \/ scheduleCmpCounter \/ scheduleSetCounter
                   \/ scheduleCmpAlphabet \/ scheduleSetAlphabet \/ scheduleDelay

NextBudget == ledTask \/ counterTask \/ alphabetTask \/ scheduleTasks

BudgetSpec == InitBudget /\ [][NextBudget]_vars

----
\* Properties of the sensor pipeline

\* The positions of task t that lie between a successful xSemaphoreTake and
\* the matching xSemaphoreGive
HeldLabels(t) ==
    CASE t = "Light" -> {"update", "give"}
      [] t = "LCD" -> {"round", "give"}
      [] t = "Anomaly" -> IF rev = "final" THEN {"check", "give"}
                          ELSE {"check", "high", "low", "wait", "give"}

Holding(t) == pc[t] \in HeldLabels(t)

\* The positions from which the next step of t reads or writes the shared
\* sensor fields
Touches(t) ==
    \/ t = "Light" /\ pc[t] = "update"
    \/ t = "LCD" /\ pc[t] = "round"
    \/ t = "Anomaly" /\ pc[t] = "check"

SharedFields == <<light, lightHistory, index, average, dataChanged>>

RECURSIVE SeqSum(_)
SeqSum(w) == IF w = <<>> THEN 0 ELSE Head(w) + SeqSum(Tail(w))

\* The history buffer read from its oldest slot on
HistoryInOrder == [j \in 1..N |-> lightHistory[(index + j - 1) % N]]

Abs(x) == IF x < 0 THEN -x ELSE x

\* C1: in every reachable state at most one of vTaskLight, vTaskLCD and
\* vTaskAnomaly is between a successful take and its matching give.
C1_MutualExclusion == Cardinality({t \in Tasks : Holding(t)}) <= 1

\* A task is inside its critical section while the other two wait at the take
C1_Contended ==
    /\ rev = "final"
    /\ pc["Light"] = "update"
    /\ pc["LCD"] = "take"
    /\ pc["Anomaly"] = "take"

\* C2: every read and write of the shared sensor fields (last raw reading,
\* history, moving average, dirty flag) is made by a task that holds the lock:
\* a task about to touch them is the holder, and the fields change only in a
\* step of the holder.
C2_AccessUnderLock ==
    /\ [](\A t \in Tasks : Touches(t) => Holding(t) /\ owner = t /\ sem = 0)
    /\ [][SharedFields' /= SharedFields =>
            \E t \in Tasks : Touches(t) /\ owner = t /\ pc'[t] /= pc[t]]_vars

\* vTaskLCD is reading the fields under the lock while vTaskLight has a
\* sample ready and waits
C2_ReaderInside ==
    /\ pc["LCD"] = "round"
    /\ owner = "LCD"
    /\ pc["Light"] = "take"
    /\ raw /= light

LightRoundFlag ==
    /\ rev = "flag"
    /\ pc["Light"] = "update"
    /\ pc'["Light"] = "give"

DirtyOutsideBoundary ==
    [][LightRoundFlag =>
         LET d == Abs(SeqSum(written') - average)
         IN  /\ d > N * Threshold => dataChanged' = TRUE /\ average' = SeqSum(written')
             /\ d < N * Threshold => dataChanged' = dataChanged /\ average' = average
             /\ (d = N * Threshold /\ average % N = 0) =>
                    dataChanged' = dataChanged /\ average' = average]_vars

\* C5: dataChanged is cleared only by vTaskLCD, in the round in which it
\* prints: a round that finds it set prints and leaves it clear before the
\* give, a round that finds it clear prints nothing, and once set it stays set
\* until such a round.
C5_ClearedByDisplayRound ==
    /\ []((rev = "flag" /\ pc["LCD"] = "give") =>
            IF foundDirty THEN printed /= <<>> /\ ~dataChanged
            ELSE printed = <<>>)
    /\ [][(rev = "flag" /\ dataChanged /\ ~dataChanged') =>
            /\ pc["LCD"] = "round"
            /\ pc'["LCD"] = "give"
            /\ owner = "LCD"
            /\ printed' = <<light, TruncAverage(average)>>]_vars

\* A display round of the flag revision found dataChanged set and has printed
C5_Rendered ==
    /\ rev = "flag"
    /\ pc["LCD"] = "give"
    /\ foundDirty
    /\ printed /= <<>>
    /\ ~dataChanged

\* average > 3800 || average < 300, on a window sum
AlarmRange(s) == s > N * HighThreshold \/ s < N * LowThreshold

\* C6: in each poll cycle of vTaskAnomaly the blink sequence starts exactly
\* when the average read under the lock in that cycle is above 3800 or below
\* 300, whatever vTaskLight writes after the read; and a blink sequence starts
\* from nowhere else.
C6_BlinkIffOutOfRange ==
    [][/\ (pc["Anomaly"] = "check" /\ pc'["Anomaly"] /= "check") =>
            owner = "Anomaly" /\ readAvg' = average
       /\ (rev = "final" /\ pc["Anomaly"] = "test" /\ pc'["Anomaly"] /= "test") =>
            (pc'["Anomaly"] = "high" <=> AlarmRange(readAvg))
       /\ (rev = "flag" /\ pc["Anomaly"] = "check" /\ pc'["Anomaly"] /= "check") =>
            (pc'["Anomaly"] = "high" <=> AlarmRange(average))
       /\ (pc["Anomaly"] \notin {"high", "low"} /\ pc'["Anomaly"] = "high") =>
            pc["Anomaly"] = IF rev = "final" THEN "test" ELSE "check"]_vars

\* vTaskAnomaly has given the lock back and is about to decide, and the
\* average has since moved across a threshold
C6_WrittenAfterRead ==
    /\ rev = "final"
    /\ pc["Anomaly"] = "test"
    /\ AlarmRange(readAvg) /= AlarmRange(average)

----
\* Properties of the Part I budgets

BudgetTasks == {"led", "counter", "alphabet"}

Remaining(t) ==
    CASE t = "led" -> remainingLedTime
      [] t = "counter" -> remainingCounterTime
      [] t = "alphabet" -> remainingAlphabetTime

Period(t) ==
    CASE t = "led" -> ledTaskExecutionTime
      [] t = "counter" -> counterTaskExecutionTime
      [] t = "alphabet" -> alphabetTaskExecutionTime

\* C8: for each of the three budgets 0 <= remaining <= period in every
\* reachable state, the states between the owner's two writes included; the
\* decrement never goes below zero.
C8_BudgetsBounded ==
    \A t \in BudgetTasks : 0 <= Remaining(t) /\ Remaining(t) <= Period(t)

\* The monitor has read the LED budget between the owner's clamp and reset,
\* while the alphabet budget is in mid-sawtooth
C8_MonitorSeesZero ==
    /\ pcI["schedule"] = "cmpCounter"
    /\ minRemaining = 0
    /\ pcI["led"] = "reload"
    /\ remainingAlphabetTime = 6000

----
\* Properties of vTaskPrime

Prime(n) == n >= 2 /\ \A d \in 2..(n - 1) : n % d /= 0

\* C10: the task emits exactly the primes of 2..limit, each once, in ascending
\* order, and no composite: what it has emitted is ascending, holds only
\* primes, and holds every prime below the candidate it is at.
C10_EmitsExactlyPrimes ==
    /\ \A k \in 1..Len(emitted) : Prime(emitted[k])
    /\ \A k \in 1..(Len(emitted) - 1) : emitted[k] < emitted[k + 1]
    /\ \A n \in 2..LastCandidate :
         (Prime(n) /\ (n < primeI \/ pcPrime = "deleted")) =>
             \E k \in 1..Len(emitted) : emitted[k] = n

\* The final revision's vTaskPrime does what C10 says
FinalEmitsExactlyPrimes == rev = "final" => C10_EmitsExactlyPrimes

\* C11: vTaskPrime finishes its range and deletes itself, whatever the three
\* pipeline tasks do beside it; once deleted it stays deleted, emits nothing
\* more and does not go back into its loop.
C11_PrimeTerminates ==
    /\ <>(pcPrime = "deleted")
    /\ [][pcPrime = "deleted" =>
            pcPrime' = "deleted" /\ emitted' = emitted /\ primeI' = primeI]_vars

\* vTaskPrime is deleted, its range done, while vTaskLight is inside its
\* critical section and vTaskLCD waits for the lock
C11_DeletedBesidePipeline ==
    /\ pcPrime = "deleted"
    /\ primeI = LastCandidate + 1
    /\ Len(emitted) > 0
    /\ pc["Light"] = "update"
    /\ pc["LCD"] = "take"

----
\* Properties of the scripted run

AllTens == <<10, 10, 10, 10, 10>>
TensThenFifty == <<10, 10, 10, 10, 50>>

----
\* C13: every blink sequence is HIGH then LOW three times, six writes of the
\* output in all, ends with the output LOW, and is followed by the return to
\* polling (in the flag revision through the delay and the give).
C13_ThreeToggles ==
    /\ [](/\ pc["Anomaly"] = "high" =>
                led = 0 /\ blinkI \in 0..2 /\ toggles = 2 * blinkI
          /\ pc["Anomaly"] = "low" =>
                led = 1 /\ blinkI \in 0..2 /\ toggles = 2 * blinkI + 1
          /\ pc["Anomaly"] \in {"reset", "wait"} => toggles = 6
          /\ pc["Anomaly"] /= "low" => led = 0)
    /\ [][/\ (pc["Anomaly"] = "low" /\ pc'["Anomaly"] /= "low") =>
                pc'["Anomaly"] = IF toggles' < 6 THEN "high"
                                 ELSE IF rev = "final" THEN "reset" ELSE "wait"
          /\ (pc["Anomaly"] = "reset" /\ pc'["Anomaly"] /= "reset") =>
                pc'["Anomaly"] = "take"
          /\ (pc["Anomaly"] = "wait" /\ pc'["Anomaly"] /= "wait") =>
                pc'["Anomaly"] = "give"
          /\ (rev = "flag" /\ pc["Anomaly"] = "give" /\ pc'["Anomaly"] /= "give") =>
                pc'["Anomaly"] = "take"]_vars

\* A blink sequence of the final revision is complete, started on an average
\* above the high threshold
C13_SequenceDone ==
    /\ rev = "final"
    /\ pc["Anomaly"] = "reset"
    /\ toggles = 6
    /\ led = 0
    /\ average > N * HighThreshold

----
\* Properties of setup()

\* C14: after startup the lock is available: once setup() has created the
\* tasks, the semaphore is available whenever no task is between a take and
\* its give, so that the first take succeeds with no give by a task before it.
C14_AvailableAfterStartup ==
    (pcSetup = "done" /\ pc /= NotCreated /\ \A t \in Tasks : ~Holding(t)) => sem = 1

\* C15: if the creation of the lock fails (NULL handle), no pipeline task is
\* created and no semaphore operation is made on the missing lock.
C15_NoUseOfMissingLock ==
    (pcSetup /= "create" /\ ~semCreated) => pc = NotCreated /\ ~nullOp

----
\* Further properties of the Part I budgets

\* C16: a remaining time changes only in a step of the task that owns it; a
\* step of the monitor leaves the three remaining times as they are (the
\* periods are constants).
C16_OwnerWritesOnly ==
    [][/\ \A t \in BudgetTasks :
            Remaining(t)' /= Remaining(t) =>
                /\ pcI'[t] /= pcI[t]
                /\ \A u \in PartITasks \ {t} : pcI'[u] = pcI[u]
       /\ pcI'["schedule"] /= pcI["schedule"] => budgets' = budgets]_vars

\* The monitor is about to copy the counter budget, and the three owners have
\* all written since the start
C16_MonitorMidRound ==
    /\ pcI["schedule"] = "setCounter"
    /\ remainingLedTime = ledTaskExecutionTime
    /\ remainingCounterTime = 0
    /\ remainingAlphabetTime = 9000

Min3(a, b, c) ==
    IF a <= b /\ a <= c THEN a ELSE IF b <= c THEN b ELSE c

----
\* Further properties of the sensor pipeline

\* C18: before N writes every history slot not yet written holds 0, and
\* whenever vTaskLight is outside its critical section the stored average is
\* the sum of the values written so far divided by N.
C18_ZeroBeforeFill ==
    (pc["Light"] /= "none" /\ Len(written) < N) =>
        /\ \A i \in Len(written)..(N - 1) : lightHistory[i] = 0
        /\ ~Holding("Light") => average = SeqSum(written)

\* C19: a task that has taken the semaphore gives it exactly once before its
\* next take, whichever way its round goes: the holder is the one task between
\* its take and its give, a task leaves that span only by its give, and a give
\* is made only by the holder, on an empty semaphore, and makes it available.
C19_TakeGivePaired ==
    /\ [](/\ \A t \in Tasks : owner = t <=> Holding(t)
          /\ owner /= "none" => sem = 0)
    /\ [][\A t \in Tasks :
            /\ (Holding(t) /\ ~Holding(t)') => pc[t] = "give" /\ pc'[t] /= "give"
            /\ (pc[t] = "give" /\ pc'[t] /= "give") =>
                  owner = t /\ sem = 0 /\ sem' = 1 /\ owner' = "none"
            /\ (~Holding(t) /\ Holding(t)') => pc[t] = "take" /\ sem = 1]_vars

\* vTaskLCD found nothing to print and is about to give the lock back
C19_GiveOnFalsePath ==
    /\ rev = "final"
    /\ pc["LCD"] = "give"
    /\ ~foundDirty
    /\ owner = "LCD"
    /\ Len(written) = N

\* C20: vTaskLight samples the sensor before it takes the lock and never while
\* it holds it, and what a round writes to the shared state is that sample,
\* kept unchanged through the wait for the lock.
C20_SampleBeforeTake ==
    [][/\ raw' /= raw =>
            pc["Light"] = "sample" /\ pc'["Light"] = "take" /\ owner /= "Light"
       /\ (pc["Light"] = "sample" /\ pc'["Light"] /= "sample") =>
            pc'["Light"] = "take" /\ ~Holding("Light")
       /\ (pc["Light"] = "update" /\ pc'["Light"] /= "update") =>
            /\ light' = raw
            /\ lightHistory' = [lightHistory EXCEPT ![index] = raw]
            /\ written'[Len(written')] = raw]_vars

\* vTaskLight waits for the lock with its sample while the alarm of the flag
\* revision blinks under the lock
C20_WaitingWithSample ==
    /\ rev = "flag"
    /\ pc["Light"] = "take"
    /\ owner = "Anomaly"
    /\ pc["Anomaly"] = "low"
    /\ raw /= light
    /\ Len(written) = N

----
\* C21: vTaskAnomaly neither latches nor triggers on an edge. A cycle blinks
\* exactly when the average it read is out of range, whether or not the cycle
\* before it blinked: the flag `anomaly` is clear whenever a cycle starts, a
\* sequence that starts runs its three HIGH/LOW pairs from the first, and the
\* end of a sequence leads to the next poll.
C21_NoLatching ==
    /\ []((rev = "final" /\ pc["Anomaly"] \in {"take", "check"}) => ~anomaly)
    /\ []((rev = "final" /\ pc["Anomaly"] = "test") => (anomaly <=> AlarmRange(readAvg)))
    /\ [][/\ (rev = "final" /\ pc["Anomaly"] = "test" /\ pc'["Anomaly"] /= "test") =>
                pc'["Anomaly"] = IF AlarmRange(readAvg) THEN "high" ELSE "take"
          /\ (rev = "flag" /\ pc["Anomaly"] = "check" /\ pc'["Anomaly"] /= "check") =>
                pc'["Anomaly"] = IF AlarmRange(average) THEN "high" ELSE "give"
          /\ (pc["Anomaly"] \notin {"high", "low"} /\ pc'["Anomaly"] = "high") =>
                blinkI' = 0 /\ toggles' = 0
          /\ (pc["Anomaly"] = "reset" /\ pc'["Anomaly"] /= "reset") =>
                toggles = 2 * BlinkCount /\ pc'["Anomaly"] = "take" /\ ~anomaly']_vars

\* The cycle before blinked its full sequence, and this cycle has read an
\* average in range and is about to decide
C21_InRangeAfterBlink ==
    /\ rev = "final"
    /\ pc["Anomaly"] = "test"
    /\ toggles = 2 * BlinkCount
    /\ ~AlarmRange(readAvg)
    /\ ~anomaly

----
\* A display round of the final revision: the step between its take and give
LCDRoundStep ==
    /\ rev = "final"
    /\ pc["LCD"] = "round"
    /\ pc'["LCD"] /= "round"

\* C22: a round of the snapshot vTaskLCD prints if and only if light or
\* average differs from prevLight or prevAverage; a round that prints shows
\* light and the average cut to its integer part and leaves the snapshot equal
\* to light and average; a round that does not print leaves the snapshot as it
\* was; and the snapshot changes in no other step.
C22_SnapshotRound ==
    [][/\ LCDRoundStep =>
            IF light /= prevLight \/ average /= prevAverage
              THEN /\ Len(printed') = 2
                   /\ printed'[1] = light
                   /\ N * printed'[2] <= average
                   /\ average < N * (printed'[2] + 1)
                   /\ prevLight' = light
                   /\ prevAverage' = average
              ELSE /\ printed' = <<>>
                   /\ prevLight' = prevLight
                   /\ prevAverage' = prevAverage
       /\ <<prevLight, prevAverage>>' /= <<prevLight, prevAverage>> =>
            LCDRoundStep /\ owner = "LCD"
       /\ (rev = "final" /\ printed' /= <<>> /\ printed' /= printed) => LCDRoundStep]_vars

\* A round has printed after the second write of 4094 into a cleared history:
\* the average 8188 / 5 = 1637.6 is shown as 1637, and the snapshot equals the
\* shared values
C22_RenderedOnAverage ==
    /\ rev = "final"
    /\ pc["LCD"] = "give"
    /\ foundDirty
    /\ written = <<4094, 4094>>
    /\ lightHistory[2] = 0
    /\ printed = <<4094, 1637>>
    /\ prevLight = light
    /\ prevAverage = average

----
\* C23: in the final pipeline, started with the semaphore given once, the
\* semaphore is available whenever no task is between its take and its give
\* (so the three tasks never all wait on a lock that nobody holds); a task that
\* holds the lock goes on to release it; and each of the three tasks takes the
\* lock again and again.
C23_NoDeadlockAndProgress ==
    /\ []((\A t \in Tasks : ~Holding(t)) => sem = 1 /\ owner = "none")
    /\ []((\A t \in Tasks : pc[t] = "take") => ENABLED NextStarted)
    /\ \A t \in Tasks : (owner = t) ~> (owner /= t)
    /\ \A t \in Tasks : []<>(owner = t)

\* The three tasks wait at the take together, the lock free, after the
\* window has filled and the alarm has blinked
C23_AllAtTake ==
    /\ rev = "final"
    /\ \A t \in Tasks : pc[t] = "take"
    /\ sem = 1
    /\ Len(written) = N
    /\ toggles = 2 * BlinkCount

----
\* C24: a periodic task that is delayed between rounds has its remaining time
\* in 1..period; the clamp and the reset are two writes of one round, so a
\* remaining time is 0 only between them and the monitor reads 0 only there;
\* and every round of ledTask, whose period is below the time slice, ends with
\* remainingLedTime equal to the period.
C24_PositiveWhileDelayed ==
    /\ [](\A t \in BudgetTasks :
            pcI[t] \in {"delay", "round"} =>
                1 <= Remaining(t) /\ Remaining(t) <= Period(t))
    /\ [](pcI["led"] \in {"delay", "round"} => remainingLedTime = ledTaskExecutionTime)
    /\ [](pcI["led"] = "reload" => remainingLedTime = 0)
    /\ [][/\ \A t \in BudgetTasks :
                (pcI[t] = "round" /\ pcI'[t] /= "round") => pcI'[t] = "reload"
          /\ (pcI["schedule"] \in {"readLed", "setCounter", "setAlphabet"}
                 /\ pcI'["schedule"] /= pcI["schedule"] /\ minRemaining' = 0) =>
                \E t \in BudgetTasks : pcI[t] = "reload" /\ Remaining(t) = 0]_vars

\* The three tasks are delayed together in the middle of their sawtooth, the
\* LED having run a round
C24_AllDelayed ==
    /\ \A t \in BudgetTasks : pcI[t] = "delay"
    /\ state
    /\ remainingLedTime = ledTaskExecutionTime
    /\ remainingCounterTime = 1000
    /\ remainingAlphabetTime = 7000

----
\* C25: in the flag revision, whenever vTaskLight does not hold the lock, sma
\* is within the threshold of the mean of the history buffer as it stands
\* (their difference in sums is at most 5 * 5, and the producer's own test
\* abs(mean - sma) > 5 is false of them); and sma changes only in a producer
\* round that takes the new mean and leaves dataChanged set.
C25_StoredNearMean ==
    /\ []((rev = "flag" /\ owner /= "Light") =>
            /\ Abs(SumHistory(lightHistory) - average) <= N * Threshold
            /\ ~AbsDiffExceeds(SumHistory(lightHistory), average))
    /\ [][(rev = "flag" /\ average' /= average) =>
            /\ LightRoundFlag
            /\ owner = "Light"
            /\ average' = SumHistory(lightHistory')
            /\ dataChanged']_vars

\* The first reading of 25 moved the mean to 5, the threshold exactly, and
\* sma stayed 0; vTaskLight has given the lock back
C25_AtThreshold ==
    /\ rev = "flag"
    /\ written = <<25>>
    /\ average = 0
    /\ SumHistory(lightHistory) = N * Threshold
    /\ ~dataChanged
    /\ pc["Light"] = "sample"
    /\ owner /= "Light"

====
